---------------------------- MODULE Spec2Model ----------------------------
(***************************************************************************)
(* Model of the http-types status module: the StatusCode newtype over u16  *)
(* (status_code.rs) with its named constants, conversions, range queries,  *)
(* is_unknown and canonical_reason tables and comparisons, and the Status  *)
(* adapter for Result and Option (status.rs).                              *)
(***************************************************************************)
EXTENDS Integers, Sequences, FiniteSets, TLC

\* u16: the width of the wrapped number (pub struct StatusCode(pub u16)).
U16Max == 65535

U16 == 0..U16Max

\* Largest distance between the two operands drawn for a comparison.
MaxDelta == 1

\* The tuple struct StatusCode(pub u16): a one-field tuple; self.0 is self[1].
StatusCode(n) == <<n>>

\* Continue declared with a digit missing.
Continue_typo == StatusCode(10)

\* ---- the named constants of impl StatusCode ----
Continue == StatusCode(100)
SwitchingProtocols == StatusCode(101)
EarlyHints == StatusCode(103)
Ok == StatusCode(200)
Created == StatusCode(201)
Accepted == StatusCode(202)
NonAuthoritativeInformation == StatusCode(203)
NoContent == StatusCode(204)
ResetContent == StatusCode(205)
PartialContent == StatusCode(206)
MultiStatus == StatusCode(207)
ImUsed == StatusCode(226)
MultipleChoice == StatusCode(300)
MovedPermanently == StatusCode(301)
Found == StatusCode(302)
SeeOther == StatusCode(303)
NotModified == StatusCode(304)
TemporaryRedirect == StatusCode(307)
PermanentRedirect == StatusCode(308)
BadRequest == StatusCode(400)
Unauthorized == StatusCode(401)
PaymentRequired == StatusCode(402)
Forbidden == StatusCode(403)
NotFound == StatusCode(404)
MethodNotAllowed == StatusCode(405)
NotAcceptable == StatusCode(406)
ProxyAuthenticationRequired == StatusCode(407)
RequestTimeout == StatusCode(408)
Conflict == StatusCode(409)
Gone == StatusCode(410)
LengthRequired == StatusCode(411)
PreconditionFailed == StatusCode(412)
PayloadTooLarge == StatusCode(413)
\* UriTooLong declared with a mistyped number.
UriTooLong_typo == StatusCode(441)

UriTooLong == StatusCode(414)

UnsupportedMediaType == StatusCode(415)
RequestedRangeNotSatisfiable == StatusCode(416)
ExpectationFailed == StatusCode(417)
ImATeapot == StatusCode(418)
MisdirectedRequest == StatusCode(421)
UnprocessableEntity == StatusCode(422)
Locked == StatusCode(423)
FailedDependency == StatusCode(424)
TooEarly == StatusCode(425)
UpgradeRequired == StatusCode(426)
PreconditionRequired == StatusCode(428)
TooManyRequests == StatusCode(429)
RequestHeaderFieldsTooLarge == StatusCode(431)
UnavailableForLegalReasons == StatusCode(451)
InternalServerError == StatusCode(500)
NotImplemented == StatusCode(501)
BadGateway == StatusCode(502)
ServiceUnavailable == StatusCode(503)
GatewayTimeout == StatusCode(504)
HttpVersionNotSupported == StatusCode(505)
VariantAlsoNegotiates == StatusCode(506)
InsufficientStorage == StatusCode(507)
LoopDetected == StatusCode(508)
NotExtended == StatusCode(510)
NetworkAuthenticationRequired == StatusCode(511)

\* The names of the associated constants, in declaration order.
ConstantNames ==
  { "Continue", "SwitchingProtocols", "EarlyHints",
    "Ok", "Created", "Accepted",
    "NonAuthoritativeInformation", "NoContent", "ResetContent",
    "PartialContent", "MultiStatus", "ImUsed",
    "MultipleChoice", "MovedPermanently", "Found",
    "SeeOther", "NotModified", "TemporaryRedirect",
    "PermanentRedirect", "BadRequest", "Unauthorized",
    "PaymentRequired", "Forbidden", "NotFound",
    "MethodNotAllowed", "NotAcceptable", "ProxyAuthenticationRequired",
    "RequestTimeout", "Conflict", "Gone",
    "LengthRequired", "PreconditionFailed", "PayloadTooLarge",
    "UriTooLong", "UnsupportedMediaType", "RequestedRangeNotSatisfiable",
    "ExpectationFailed", "ImATeapot", "MisdirectedRequest",
    "UnprocessableEntity", "Locked", "FailedDependency",
    "TooEarly", "UpgradeRequired", "PreconditionRequired",
    "TooManyRequests", "RequestHeaderFieldsTooLarge", "UnavailableForLegalReasons",
    "InternalServerError", "NotImplemented", "BadGateway",
    "ServiceUnavailable", "GatewayTimeout", "HttpVersionNotSupported",
    "VariantAlsoNegotiates", "InsufficientStorage", "LoopDetected",
    "NotExtended", "NetworkAuthenticationRequired" }

\* Path lookup StatusCode::<name> of an associated constant.
Constant(name) ==
  CASE name = "Continue" -> Continue
    [] name = "SwitchingProtocols" -> SwitchingProtocols
    [] name = "EarlyHints" -> EarlyHints
    [] name = "Ok" -> Ok
    [] name = "Created" -> Created
    [] name = "Accepted" -> Accepted
    [] name = "NonAuthoritativeInformation" -> NonAuthoritativeInformation
    [] name = "NoContent" -> NoContent
    [] name = "ResetContent" -> ResetContent
    [] name = "PartialContent" -> PartialContent
    [] name = "MultiStatus" -> MultiStatus
    [] name = "ImUsed" -> ImUsed
    [] name = "MultipleChoice" -> MultipleChoice
    [] name = "MovedPermanently" -> MovedPermanently
    [] name = "Found" -> Found
    [] name = "SeeOther" -> SeeOther
    [] name = "NotModified" -> NotModified
    [] name = "TemporaryRedirect" -> TemporaryRedirect
    [] name = "PermanentRedirect" -> PermanentRedirect
    [] name = "BadRequest" -> BadRequest
    [] name = "Unauthorized" -> Unauthorized
    [] name = "PaymentRequired" -> PaymentRequired
    [] name = "Forbidden" -> Forbidden
    [] name = "NotFound" -> NotFound
    [] name = "MethodNotAllowed" -> MethodNotAllowed
    [] name = "NotAcceptable" -> NotAcceptable
    [] name = "ProxyAuthenticationRequired" -> ProxyAuthenticationRequired
    [] name = "RequestTimeout" -> RequestTimeout
    [] name = "Conflict" -> Conflict
    [] name = "Gone" -> Gone
    [] name = "LengthRequired" -> LengthRequired
    [] name = "PreconditionFailed" -> PreconditionFailed
    [] name = "PayloadTooLarge" -> PayloadTooLarge
    [] name = "UriTooLong" -> UriTooLong
    [] name = "UnsupportedMediaType" -> UnsupportedMediaType
    [] name = "RequestedRangeNotSatisfiable" -> RequestedRangeNotSatisfiable
    [] name = "ExpectationFailed" -> ExpectationFailed
    [] name = "ImATeapot" -> ImATeapot
    [] name = "MisdirectedRequest" -> MisdirectedRequest
    [] name = "UnprocessableEntity" -> UnprocessableEntity
    [] name = "Locked" -> Locked
    [] name = "FailedDependency" -> FailedDependency
    [] name = "TooEarly" -> TooEarly
    [] name = "UpgradeRequired" -> UpgradeRequired
    [] name = "PreconditionRequired" -> PreconditionRequired
    [] name = "TooManyRequests" -> TooManyRequests
    [] name = "RequestHeaderFieldsTooLarge" -> RequestHeaderFieldsTooLarge
    [] name = "UnavailableForLegalReasons" -> UnavailableForLegalReasons
    [] name = "InternalServerError" -> InternalServerError
    [] name = "NotImplemented" -> NotImplemented
    [] name = "BadGateway" -> BadGateway
    [] name = "ServiceUnavailable" -> ServiceUnavailable
    [] name = "GatewayTimeout" -> GatewayTimeout
    [] name = "HttpVersionNotSupported" -> HttpVersionNotSupported
    [] name = "VariantAlsoNegotiates" -> VariantAlsoNegotiates
    [] name = "InsufficientStorage" -> InsufficientStorage
    [] name = "LoopDetected" -> LoopDetected
    [] name = "NotExtended" -> NotExtended
    [] name = "NetworkAuthenticationRequired" -> NetworkAuthenticationRequired

is_informational(self) == self[1] >= 100 /\ self[1] < 200

is_success(self) == self[1] >= 200 /\ self[1] < 300

\* is_redirection with an inclusive upper bound.
is_redirection_inclusive(self) == self[1] >= 300 /\ self[1] <= 400

is_redirection(self) == self[1] >= 300 /\ self[1] < 400

is_client_error(self) == self[1] >= 400 /\ self[1] < 500

is_server_error(self) == self[1] >= 500 /\ self[1] < 600

\* is_unknown with the ImATeapot arm forgotten.
is_unknown_missing_arm(self) ==
  self \notin { Constant(n) : n \in ConstantNames \ {"ImATeapot"} }

\* is_unknown with an arm for a code (509) that no other table names.
is_unknown_extra_arm(self) ==
  self \notin { Constant(n) : n \in ConstantNames } \cup { StatusCode(509) }

\* match *self { StatusCode::<name> | ... => false, _ => true }
is_unknown(self) ==
  CASE self = Continue -> FALSE
    [] self = SwitchingProtocols -> FALSE
    [] self = EarlyHints -> FALSE
    [] self = Ok -> FALSE
    [] self = Created -> FALSE
    [] self = Accepted -> FALSE
    [] self = NonAuthoritativeInformation -> FALSE
    [] self = NoContent -> FALSE
    [] self = ResetContent -> FALSE
    [] self = PartialContent -> FALSE
    [] self = MultiStatus -> FALSE
    [] self = ImUsed -> FALSE
    [] self = MultipleChoice -> FALSE
    [] self = MovedPermanently -> FALSE
    [] self = Found -> FALSE
    [] self = SeeOther -> FALSE
    [] self = NotModified -> FALSE
    [] self = TemporaryRedirect -> FALSE
    [] self = PermanentRedirect -> FALSE
    [] self = BadRequest -> FALSE
    [] self = Unauthorized -> FALSE
    [] self = PaymentRequired -> FALSE
    [] self = Forbidden -> FALSE
    [] self = NotFound -> FALSE
    [] self = MethodNotAllowed -> FALSE
    [] self = NotAcceptable -> FALSE
    [] self = ProxyAuthenticationRequired -> FALSE
    [] self = RequestTimeout -> FALSE
    [] self = Conflict -> FALSE
    [] self = Gone -> FALSE
    [] self = LengthRequired -> FALSE
    [] self = PreconditionFailed -> FALSE
    [] self = PayloadTooLarge -> FALSE
    [] self = UriTooLong -> FALSE
    [] self = UnsupportedMediaType -> FALSE
    [] self = RequestedRangeNotSatisfiable -> FALSE
    [] self = ExpectationFailed -> FALSE
    [] self = ImATeapot -> FALSE
    [] self = MisdirectedRequest -> FALSE
    [] self = UnprocessableEntity -> FALSE
    [] self = Locked -> FALSE
    [] self = FailedDependency -> FALSE
    [] self = TooEarly -> FALSE
    [] self = UpgradeRequired -> FALSE
    [] self = PreconditionRequired -> FALSE
    [] self = TooManyRequests -> FALSE
    [] self = RequestHeaderFieldsTooLarge -> FALSE
    [] self = UnavailableForLegalReasons -> FALSE
    [] self = InternalServerError -> FALSE
    [] self = NotImplemented -> FALSE
    [] self = BadGateway -> FALSE
    [] self = ServiceUnavailable -> FALSE
    [] self = GatewayTimeout -> FALSE
    [] self = HttpVersionNotSupported -> FALSE
    [] self = VariantAlsoNegotiates -> FALSE
    [] self = InsufficientStorage -> FALSE
    [] self = LoopDetected -> FALSE
    [] self = NotExtended -> FALSE
    [] self = NetworkAuthenticationRequired -> FALSE
    [] OTHER -> TRUE

\* canonical_reason with the TooEarly arm forgotten.
canonical_reason_missing_arm(self) ==
  CASE self = Continue -> "Continue"
    [] self = SwitchingProtocols -> "Switching Protocols"
    [] self = EarlyHints -> "Early Hints"
    [] self = Ok -> "OK"
    [] self = Created -> "Created"
    [] self = Accepted -> "Accepted"
    [] self = NonAuthoritativeInformation -> "Non Authoritative Information"
    [] self = NoContent -> "No Content"
    [] self = ResetContent -> "Reset Content"
    [] self = PartialContent -> "Partial Content"
    [] self = MultiStatus -> "Multi-Status"
    [] self = ImUsed -> "Im Used"
    [] self = MultipleChoice -> "Multiple Choice"
    [] self = MovedPermanently -> "Moved Permanently"
    [] self = Found -> "Found"
    [] self = SeeOther -> "See Other"
    [] self = NotModified -> "Modified"
    [] self = TemporaryRedirect -> "Temporary Redirect"
    [] self = PermanentRedirect -> "Permanent Redirect"
    [] self = BadRequest -> "Bad Request"
    [] self = Unauthorized -> "Unauthorized"
    [] self = PaymentRequired -> "Payment Required"
    [] self = Forbidden -> "Forbidden"
    [] self = NotFound -> "Not Found"
    [] self = MethodNotAllowed -> "Method Not Allowed"
    [] self = NotAcceptable -> "Not Acceptable"
    [] self = ProxyAuthenticationRequired -> "Proxy Authentication Required"
    [] self = RequestTimeout -> "Request Timeout"
    [] self = Conflict -> "Conflict"
    [] self = Gone -> "Gone"
    [] self = LengthRequired -> "Length Required"
    [] self = PreconditionFailed -> "Precondition Failed"
    [] self = PayloadTooLarge -> "Payload Too Large"
    [] self = UriTooLong -> "URI Too Long"
    [] self = UnsupportedMediaType -> "Unsupported Media Type"
    [] self = RequestedRangeNotSatisfiable -> "Requested Range Not Satisfiable"
    [] self = ExpectationFailed -> "Expectation Failed"
    [] self = ImATeapot -> "I'm a teapot"
    [] self = MisdirectedRequest -> "Misdirected Request"
    [] self = UnprocessableEntity -> "Unprocessable Entity"
    [] self = Locked -> "Locked"
    [] self = FailedDependency -> "Failed Dependency"
    [] self = UpgradeRequired -> "Upgrade Required"
    [] self = PreconditionRequired -> "Precondition Required"
    [] self = TooManyRequests -> "Too Many Requests"
    [] self = RequestHeaderFieldsTooLarge -> "Request Header Fields Too Large"
    [] self = UnavailableForLegalReasons -> "Unavailable For Legal Reasons"
    [] self = InternalServerError -> "Internal Server Error"
    [] self = NotImplemented -> "Not Implemented"
    [] self = BadGateway -> "Bad Gateway"
    [] self = ServiceUnavailable -> "Service Unavailable"
    [] self = GatewayTimeout -> "Gateway Timeout"
    [] self = HttpVersionNotSupported -> "HTTP Version Not Supported"
    [] self = VariantAlsoNegotiates -> "Variant Also Negotiates"
    [] self = InsufficientStorage -> "Insufficient Storage"
    [] self = LoopDetected -> "Loop Detected"
    [] self = NotExtended -> "Not Extended"
    [] self = NetworkAuthenticationRequired -> "Network Authentication Required"
    [] OTHER -> "Unknown Status Code"

\* canonical_reason with the NotModified arm reading "Not Modified".
canonical_reason_not_modified(self) ==
  CASE self = Continue -> "Continue"
    [] self = SwitchingProtocols -> "Switching Protocols"
    [] self = EarlyHints -> "Early Hints"
    [] self = Ok -> "OK"
    [] self = Created -> "Created"
    [] self = Accepted -> "Accepted"
    [] self = NonAuthoritativeInformation -> "Non Authoritative Information"
    [] self = NoContent -> "No Content"
    [] self = ResetContent -> "Reset Content"
    [] self = PartialContent -> "Partial Content"
    [] self = MultiStatus -> "Multi-Status"
    [] self = ImUsed -> "Im Used"
    [] self = MultipleChoice -> "Multiple Choice"
    [] self = MovedPermanently -> "Moved Permanently"
    [] self = Found -> "Found"
    [] self = SeeOther -> "See Other"
    [] self = NotModified -> "Not Modified"
    [] self = TemporaryRedirect -> "Temporary Redirect"
    [] self = PermanentRedirect -> "Permanent Redirect"
    [] self = BadRequest -> "Bad Request"
    [] self = Unauthorized -> "Unauthorized"
    [] self = PaymentRequired -> "Payment Required"
    [] self = Forbidden -> "Forbidden"
    [] self = NotFound -> "Not Found"
    [] self = MethodNotAllowed -> "Method Not Allowed"
    [] self = NotAcceptable -> "Not Acceptable"
    [] self = ProxyAuthenticationRequired -> "Proxy Authentication Required"
    [] self = RequestTimeout -> "Request Timeout"
    [] self = Conflict -> "Conflict"
    [] self = Gone -> "Gone"
    [] self = LengthRequired -> "Length Required"
    [] self = PreconditionFailed -> "Precondition Failed"
    [] self = PayloadTooLarge -> "Payload Too Large"
    [] self = UriTooLong -> "URI Too Long"
    [] self = UnsupportedMediaType -> "Unsupported Media Type"
    [] self = RequestedRangeNotSatisfiable -> "Requested Range Not Satisfiable"
    [] self = ExpectationFailed -> "Expectation Failed"
    [] self = ImATeapot -> "I'm a teapot"
    [] self = MisdirectedRequest -> "Misdirected Request"
    [] self = UnprocessableEntity -> "Unprocessable Entity"
    [] self = Locked -> "Locked"
    [] self = FailedDependency -> "Failed Dependency"
    [] self = TooEarly -> "Too Early"
    [] self = UpgradeRequired -> "Upgrade Required"
    [] self = PreconditionRequired -> "Precondition Required"
    [] self = TooManyRequests -> "Too Many Requests"
    [] self = RequestHeaderFieldsTooLarge -> "Request Header Fields Too Large"
    [] self = UnavailableForLegalReasons -> "Unavailable For Legal Reasons"
    [] self = InternalServerError -> "Internal Server Error"
    [] self = NotImplemented -> "Not Implemented"
    [] self = BadGateway -> "Bad Gateway"
    [] self = ServiceUnavailable -> "Service Unavailable"
    [] self = GatewayTimeout -> "Gateway Timeout"
    [] self = HttpVersionNotSupported -> "HTTP Version Not Supported"
    [] self = VariantAlsoNegotiates -> "Variant Also Negotiates"
    [] self = InsufficientStorage -> "Insufficient Storage"
    [] self = LoopDetected -> "Loop Detected"
    [] self = NotExtended -> "Not Extended"
    [] self = NetworkAuthenticationRequired -> "Network Authentication Required"
    [] OTHER -> "Unknown Status Code"

\* match *self { StatusCode::<name> => "<phrase>", ..., _ => "Unknown Status Code" }
canonical_reason(self) ==
  CASE self = Continue -> "Continue"
    [] self = SwitchingProtocols -> "Switching Protocols"
    [] self = EarlyHints -> "Early Hints"
    [] self = Ok -> "OK"
    [] self = Created -> "Created"
    [] self = Accepted -> "Accepted"
    [] self = NonAuthoritativeInformation -> "Non Authoritative Information"
    [] self = NoContent -> "No Content"
    [] self = ResetContent -> "Reset Content"
    [] self = PartialContent -> "Partial Content"
    [] self = MultiStatus -> "Multi-Status"
    [] self = ImUsed -> "Im Used"
    [] self = MultipleChoice -> "Multiple Choice"
    [] self = MovedPermanently -> "Moved Permanently"
    [] self = Found -> "Found"
    [] self = SeeOther -> "See Other"
    [] self = NotModified -> "Modified"
    [] self = TemporaryRedirect -> "Temporary Redirect"
    [] self = PermanentRedirect -> "Permanent Redirect"
    [] self = BadRequest -> "Bad Request"
    [] self = Unauthorized -> "Unauthorized"
    [] self = PaymentRequired -> "Payment Required"
    [] self = Forbidden -> "Forbidden"
    [] self = NotFound -> "Not Found"
    [] self = MethodNotAllowed -> "Method Not Allowed"
    [] self = NotAcceptable -> "Not Acceptable"
    [] self = ProxyAuthenticationRequired -> "Proxy Authentication Required"
    [] self = RequestTimeout -> "Request Timeout"
    [] self = Conflict -> "Conflict"
    [] self = Gone -> "Gone"
    [] self = LengthRequired -> "Length Required"
    [] self = PreconditionFailed -> "Precondition Failed"
    [] self = PayloadTooLarge -> "Payload Too Large"
    [] self = UriTooLong -> "URI Too Long"
    [] self = UnsupportedMediaType -> "Unsupported Media Type"
    [] self = RequestedRangeNotSatisfiable -> "Requested Range Not Satisfiable"
    [] self = ExpectationFailed -> "Expectation Failed"
    [] self = ImATeapot -> "I'm a teapot"
    [] self = MisdirectedRequest -> "Misdirected Request"
    [] self = UnprocessableEntity -> "Unprocessable Entity"
    [] self = Locked -> "Locked"
    [] self = FailedDependency -> "Failed Dependency"
    [] self = TooEarly -> "Too Early"
    [] self = UpgradeRequired -> "Upgrade Required"
    [] self = PreconditionRequired -> "Precondition Required"
    [] self = TooManyRequests -> "Too Many Requests"
    [] self = RequestHeaderFieldsTooLarge -> "Request Header Fields Too Large"
    [] self = UnavailableForLegalReasons -> "Unavailable For Legal Reasons"
    [] self = InternalServerError -> "Internal Server Error"
    [] self = NotImplemented -> "Not Implemented"
    [] self = BadGateway -> "Bad Gateway"
    [] self = ServiceUnavailable -> "Service Unavailable"
    [] self = GatewayTimeout -> "Gateway Timeout"
    [] self = HttpVersionNotSupported -> "HTTP Version Not Supported"
    [] self = VariantAlsoNegotiates -> "Variant Also Negotiates"
    [] self = InsufficientStorage -> "Insufficient Storage"
    [] self = LoopDetected -> "Loop Detected"
    [] self = NotExtended -> "Not Extended"
    [] self = NetworkAuthenticationRequired -> "Network Authentication Required"
    [] OTHER -> "Unknown Status Code"

\* impl From<StatusCode> for u16
u16_from(code) == code[1]

\* From<u16> clamping the number to three digits.
StatusCode_from_clamp(num) == StatusCode(IF num > 999 THEN 999 ELSE num)

\* impl From<u16> for StatusCode
StatusCode_from(num) ==
  CASE num = 100 -> Continue
    [] num = 101 -> SwitchingProtocols
    [] num = 103 -> EarlyHints
    [] num = 200 -> Ok
    [] num = 201 -> Created
    [] num = 202 -> Accepted
    [] num = 203 -> NonAuthoritativeInformation
    [] num = 204 -> NoContent
    [] num = 205 -> ResetContent
    [] num = 206 -> PartialContent
    [] num = 207 -> MultiStatus
    [] num = 226 -> ImUsed
    [] num = 300 -> MultipleChoice
    [] num = 301 -> MovedPermanently
    [] num = 302 -> Found
    [] num = 303 -> SeeOther
    [] num = 304 -> NotModified
    [] num = 307 -> TemporaryRedirect
    [] num = 308 -> PermanentRedirect
    [] num = 400 -> BadRequest
    [] num = 401 -> Unauthorized
    [] num = 402 -> PaymentRequired
    [] num = 403 -> Forbidden
    [] num = 404 -> NotFound
    [] num = 405 -> MethodNotAllowed
    [] num = 406 -> NotAcceptable
    [] num = 407 -> ProxyAuthenticationRequired
    [] num = 408 -> RequestTimeout
    [] num = 409 -> Conflict
    [] num = 410 -> Gone
    [] num = 411 -> LengthRequired
    [] num = 412 -> PreconditionFailed
    [] num = 413 -> PayloadTooLarge
    [] num = 414 -> UriTooLong
    [] num = 415 -> UnsupportedMediaType
    [] num = 416 -> RequestedRangeNotSatisfiable
    [] num = 417 -> ExpectationFailed
    [] num = 418 -> ImATeapot
    [] num = 421 -> MisdirectedRequest
    [] num = 422 -> UnprocessableEntity
    [] num = 423 -> Locked
    [] num = 424 -> FailedDependency
    [] num = 425 -> TooEarly
    [] num = 426 -> UpgradeRequired
    [] num = 428 -> PreconditionRequired
    [] num = 429 -> TooManyRequests
    [] num = 431 -> RequestHeaderFieldsTooLarge
    [] num = 451 -> UnavailableForLegalReasons
    [] num = 500 -> InternalServerError
    [] num = 501 -> NotImplemented
    [] num = 502 -> BadGateway
    [] num = 503 -> ServiceUnavailable
    [] num = 504 -> GatewayTimeout
    [] num = 505 -> HttpVersionNotSupported
    [] num = 506 -> VariantAlsoNegotiates
    [] num = 507 -> InsufficientStorage
    [] num = 508 -> LoopDetected
    [] num = 510 -> NotExtended
    [] num = 511 -> NetworkAuthenticationRequired
    [] OTHER -> StatusCode(num)

\* The numbers that have an arm of their own in the match of From<u16>;
\* every other number falls to the catch-all arm n => StatusCode(n).
from_has_arm(num) ==
  num \in
    { 100, 101, 103, 200, 201, 202, 203, 204, 205, 206,
      207, 226, 300, 301, 302, 303, 304, 307, 308, 400,
      401, 402, 403, 404, 405, 406, 407, 408, 409, 410,
      411, 412, 413, 414, 415, 416, 417, 418, 421, 422,
      423, 424, 425, 426, 428, 429, 431, 451, 500, 501,
      502, 503, 504, 505, 506, 507, 508, 510, 511 }

\* PartialEq<StatusCode> for u16 comparing the number with itself.
u16_eq_self(self, other) == self = self

\* impl PartialEq<StatusCode> for u16
u16_eq(self, other) == self = u16_from(other)

\* impl PartialEq<u16> for StatusCode
StatusCode_eq_u16(self, other) == u16_from(self) = other

\* #[derive(PartialEq)] on the tuple struct: field-wise equality.
StatusCode_eq(self, other) == self[1] = other[1]

\* ---- status.rs: the Status adapter ----

\* Result<T, E> and Option<T> values.
ResultOk(t) == [tag |-> "Ok", v |-> t]

ResultErr(e) == [tag |-> "Err", v |-> e]

OptionSome(t) == [tag |-> "Some", v |-> t]

OptionNone == [tag |-> "None"]

\* crate::Error, built from a status and a cause; status() returns the
\* StatusCode it was built with.
Error_new(status, error) == [status |-> status, cause |-> error]

Error_from_str(status, msg) == [status |-> status, cause |-> msg]

\* Result::status rejecting a status that is not a registered code.
Result_status_validating(self, status) ==
  IF self.tag = "Err" \/ is_unknown(StatusCode_from(status))
  THEN ResultErr(Error_new(StatusCode_from(status), self.v))
  ELSE ResultOk(self.v)

\* Result::status replacing a status that is not a registered code by
\* InternalServerError.
Result_status_substituting(self, status) ==
  IF self.tag = "Err"
  THEN ResultErr(Error_new(IF is_unknown(StatusCode_from(status))
                           THEN InternalServerError
                           ELSE StatusCode_from(status),
                           self.v))
  ELSE ResultOk(self.v)

\* Result::status: self.map_err(|error| Error::new(status.into(), error)).
\* map_err rebuilds Ok(t) as Ok(t) and applies the closure to Err(e) only.
Result_status(self, status) ==
  IF self.tag = "Err"
  THEN ResultErr(Error_new(StatusCode_from(status), self.v))
  ELSE ResultOk(self.v)

\* Result::with_status converting fallibly and unwrapping: a status that is
\* not a registered code unwinds instead of returning.
Result_with_status_panicking(self, f, calls) ==
  IF self.tag = "Err"
  THEN [ret   |-> IF is_unknown(StatusCode_from(f))
                  THEN [tag |-> "Panic"]
                  ELSE ResultErr(Error_new(StatusCode_from(f), self.v)),
        calls |-> calls + 1]
  ELSE [ret |-> ResultOk(self.v), calls |-> calls]

\* Result::with_status never running its closure and reporting
\* InternalServerError instead.
Result_with_status_uncalled(self, f, calls) ==
  IF self.tag = "Err"
  THEN [ret   |-> ResultErr(Error_new(InternalServerError, self.v)),
        calls |-> calls]
  ELSE [ret |-> ResultOk(self.v), calls |-> calls]

\* Result::with_status: self.map_err(|error| Error::new(f().into(), error)).
\* f is the number the closure returns; calls counts its invocations.
Result_with_status(self, f, calls) ==
  IF self.tag = "Err"
  THEN [ret   |-> ResultErr(Error_new(StatusCode_from(f), self.v)),
        calls |-> calls + 1]
  ELSE [ret |-> ResultOk(self.v), calls |-> calls]

\* Option::status reporting every absence as NotFound, whatever the status
\* it is given.
Option_status_not_found(self, status) ==
  IF self.tag = "None"
  THEN ResultErr(Error_from_str(NotFound, "NoneError"))
  ELSE ResultOk(self.v)

\* Option::status: self.ok_or_else(|| Error::from_str(status.into(), "NoneError")).
\* ok_or_else turns Some(v) into Ok(v) and calls the closure for None only.
Option_status(self, status) ==
  IF self.tag = "None"
  THEN ResultErr(Error_from_str(StatusCode_from(status), "NoneError"))
  ELSE ResultOk(self.v)

\* Option::with_status evaluating the closure before looking at self.
Option_with_status_eager(self, f, calls) ==
  IF self.tag = "None"
  THEN [ret   |-> ResultErr(Error_from_str(StatusCode_from(f), "NoneError")),
        calls |-> calls + 1]
  ELSE [ret |-> ResultOk(self.v), calls |-> calls + 1]

\* Option::with_status naming the absence differently from Option::status.
Option_with_status_other_cause(self, f, calls) ==
  IF self.tag = "None"
  THEN [ret   |-> ResultErr(Error_from_str(StatusCode_from(f), "None")),
        calls |-> calls + 1]
  ELSE [ret |-> ResultOk(self.v), calls |-> calls]

\* Option::with_status: self.ok_or_else(|| Error::from_str(f().into(), "NoneError")).
Option_with_status(self, f, calls) ==
  IF self.tag = "None"
  THEN [ret   |-> ResultErr(Error_from_str(StatusCode_from(f), "NoneError")),
        calls |-> calls + 1]
  ELSE [ret |-> ResultOk(self.v), calls |-> calls]

\* The registered set of the specification glossary: <<number, name>>.
Glossary ==
  { <<100, "Continue">>, <<101, "SwitchingProtocols">>, <<103, "EarlyHints">>,
    <<200, "Ok">>, <<201, "Created">>, <<202, "Accepted">>,
    <<203, "NonAuthoritativeInformation">>, <<204, "NoContent">>, <<205, "ResetContent">>,
    <<206, "PartialContent">>, <<207, "MultiStatus">>, <<226, "ImUsed">>,
    <<300, "MultipleChoice">>, <<301, "MovedPermanently">>, <<302, "Found">>,
    <<303, "SeeOther">>, <<304, "NotModified">>, <<307, "TemporaryRedirect">>,
    <<308, "PermanentRedirect">>, <<400, "BadRequest">>, <<401, "Unauthorized">>,
    <<402, "PaymentRequired">>, <<403, "Forbidden">>, <<404, "NotFound">>,
    <<405, "MethodNotAllowed">>, <<406, "NotAcceptable">>, <<407, "ProxyAuthenticationRequired">>,
    <<408, "RequestTimeout">>, <<409, "Conflict">>, <<410, "Gone">>,
    <<411, "LengthRequired">>, <<412, "PreconditionFailed">>, <<413, "PayloadTooLarge">>,
    <<414, "UriTooLong">>, <<415, "UnsupportedMediaType">>, <<416, "RequestedRangeNotSatisfiable">>,
    <<417, "ExpectationFailed">>, <<418, "ImATeapot">>, <<421, "MisdirectedRequest">>,
    <<422, "UnprocessableEntity">>, <<423, "Locked">>, <<424, "FailedDependency">>,
    <<425, "TooEarly">>, <<426, "UpgradeRequired">>, <<428, "PreconditionRequired">>,
    <<429, "TooManyRequests">>, <<431, "RequestHeaderFieldsTooLarge">>, <<451, "UnavailableForLegalReasons">>,
    <<500, "InternalServerError">>, <<501, "NotImplemented">>, <<502, "BadGateway">>,
    <<503, "ServiceUnavailable">>, <<504, "GatewayTimeout">>, <<505, "HttpVersionNotSupported">>,
    <<506, "VariantAlsoNegotiates">>, <<507, "InsufficientStorage">>, <<508, "LoopDetected">>,
    <<510, "NotExtended">>, <<511, "NetworkAuthenticationRequired">> }

GlossaryNumbers == { g[1] : g \in Glossary }

NoName == "-"

NoCode == <<>>

NoValue == "none"

\* The second operands a comparison is tried with: the same number, its
\* successors (wrapping at the u16 width) and its bitwise complement.
Others(a) == { (a + d) % (U16Max + 1) : d \in 0..MaxDelta } \cup { U16Max - a }

\* Success values, underlying errors and status arguments the adapter is
\* called with.
MaxValue == 1

Values == 0..MaxValue

Errors == {"oh no!", "eof"}

StatusArgs == {0, 200, 404, 600, U16Max}

\* Cap on the invocations counted by the call-counting closure.
MaxCalls == 2

ResultInputs == { ResultOk(t) : t \in Values } \cup { ResultErr(e) : e \in Errors }

OptionInputs == { OptionSome(t) : t \in Values } \cup { OptionNone }

VARIABLES
  num,    \* the raw u16 the caller holds
  name,   \* the named constant the caller refers to, or NoName
  pc,     \* the last operation performed on the status code
  via,    \* how the StatusCode value was obtained
  code,   \* the StatusCode value
  other,  \* the second operand of a comparison
  ret,    \* the value the last query, conversion or comparison returned
  self,   \* the receiver of the last adapter call
  status, \* the status the call was given, or its closure returns
  result, \* the Result<T, Error> the adapter returned
  calls,  \* how many times a closure passed to with_status has run
  method  \* the adapter method last called

codeVars == <<num, name, pc, via, code, other, ret>>

adapterVars == <<self, status, result, calls, method>>

vars == <<num, name, pc, via, code, other, ret, self, status, result, calls, method>>

AdapterIdle ==
  /\ self = NoValue
  /\ status = NoValue
  /\ result = NoValue
  /\ calls = 0
  /\ method = "none"

CodeIdle ==
  /\ num = 0
  /\ name = NoName
  /\ pc = "start"
  /\ via = "start"
  /\ code = NoCode
  /\ other = NoValue
  /\ ret = NoValue

\* The caller starts from a raw number, or from an entry of the glossary.
Init ==
  /\ num \in U16
  /\ name \in {NoName} \cup { g[2] : g \in { h \in Glossary : h[1] = num } }
  /\ pc = "start"
  /\ via = "start"
  /\ code = NoCode
  /\ other = NoValue
  /\ ret = NoValue
  /\ AdapterIdle

Have == pc \in {"new", "from", "named"}

\* StatusCode(num): the public tuple constructor.
New ==
  /\ pc = "start"
  /\ code' = StatusCode(num)
  /\ pc' = "new"
  /\ via' = "new"
  /\ UNCHANGED <<num, name, other, ret>>
  /\ UNCHANGED adapterVars

\* StatusCode::from(num)
From ==
  /\ pc = "start"
  /\ code' = StatusCode_from(num)
  /\ pc' = "from"
  /\ via' = "from"
  /\ UNCHANGED <<num, name, other, ret>>
  /\ UNCHANGED adapterVars

\* StatusCode::<name>
Named ==
  /\ pc = "start"
  /\ name # NoName
  /\ code' = Constant(name)
  /\ pc' = "named"
  /\ via' = "named"
  /\ UNCHANGED <<num, name, other, ret>>
  /\ UNCHANGED adapterVars

\* u16::from(code)
Into ==
  /\ Have
  /\ ret' = u16_from(code)
  /\ pc' = "into"
  /\ UNCHANGED <<num, name, via, code, other>>
  /\ UNCHANGED adapterVars

IsInformational ==
  /\ Have
  /\ ret' = is_informational(code)
  /\ pc' = "is_informational"
  /\ UNCHANGED <<num, name, via, code, other>>
  /\ UNCHANGED adapterVars

IsSuccess ==
  /\ Have
  /\ ret' = is_success(code)
  /\ pc' = "is_success"
  /\ UNCHANGED <<num, name, via, code, other>>
  /\ UNCHANGED adapterVars

IsRedirection ==
  /\ Have
  /\ ret' = is_redirection(code)
  /\ pc' = "is_redirection"
  /\ UNCHANGED <<num, name, via, code, other>>
  /\ UNCHANGED adapterVars

IsClientError ==
  /\ Have
  /\ ret' = is_client_error(code)
  /\ pc' = "is_client_error"
  /\ UNCHANGED <<num, name, via, code, other>>
  /\ UNCHANGED adapterVars

IsServerError ==
  /\ Have
  /\ ret' = is_server_error(code)
  /\ pc' = "is_server_error"
  /\ UNCHANGED <<num, name, via, code, other>>
  /\ UNCHANGED adapterVars

IsUnknown ==
  /\ Have
  /\ ret' = is_unknown(code)
  /\ pc' = "is_unknown"
  /\ UNCHANGED <<num, name, via, code, other>>
  /\ UNCHANGED adapterVars

CanonicalReason ==
  /\ Have
  /\ ret' = canonical_reason(code)
  /\ pc' = "canonical_reason"
  /\ UNCHANGED <<num, name, via, code, other>>
  /\ UNCHANGED adapterVars

\* code == StatusCode(b)
Eq ==
  /\ Have
  /\ \E b \in Others(num) :
       /\ other' = b
       /\ ret' = StatusCode_eq(code, StatusCode(b))
  /\ pc' = "eq"
  /\ UNCHANGED <<num, name, via, code>>
  /\ UNCHANGED adapterVars

\* code == b
EqU16 ==
  /\ Have
  /\ \E b \in Others(num) :
       /\ other' = b
       /\ ret' = StatusCode_eq_u16(code, b)
  /\ pc' = "eq_u16"
  /\ UNCHANGED <<num, name, via, code>>
  /\ UNCHANGED adapterVars

\* b == code
U16Eq ==
  /\ Have
  /\ \E b \in Others(num) :
       /\ other' = b
       /\ ret' = u16_eq(b, code)
  /\ pc' = "u16_eq"
  /\ UNCHANGED <<num, name, via, code>>
  /\ UNCHANGED adapterVars

Next ==
  \/ New
  \/ From
  \/ Named
  \/ Into
  \/ IsInformational
  \/ IsSuccess
  \/ IsRedirection
  \/ IsClientError
  \/ IsServerError
  \/ IsUnknown
  \/ CanonicalReason
  \/ Eq
  \/ EqU16
  \/ U16Eq

Spec == Init /\ [][Next]_vars

\* ---- the adapter: each call takes a receiver and a status ----

AdapterInit == CodeIdle /\ AdapterIdle

\* r.status(s) on a Result
ResultStatus ==
  /\ \E r \in ResultInputs, s \in StatusArgs :
       /\ self' = r
       /\ status' = s
       /\ result' = Result_status(r, s)
  /\ method' = "Result::status"
  /\ UNCHANGED calls
  /\ UNCHANGED codeVars

\* r.with_status(|| s) on a Result, with a closure that counts its calls
ResultWithStatus ==
  /\ calls < MaxCalls
  /\ \E r \in ResultInputs, s \in StatusArgs :
       LET out == Result_with_status(r, s, calls) IN
         /\ self' = r
         /\ status' = s
         /\ result' = out.ret
         /\ calls' = out.calls
  /\ method' = "Result::with_status"
  /\ UNCHANGED codeVars

\* o.status(s) on an Option
OptionStatus ==
  /\ \E o \in OptionInputs, s \in StatusArgs :
       /\ self' = o
       /\ status' = s
       /\ result' = Option_status(o, s)
  /\ method' = "Option::status"
  /\ UNCHANGED calls
  /\ UNCHANGED codeVars

\* o.with_status(|| s) on an Option, with a closure that counts its calls
OptionWithStatus ==
  /\ calls < MaxCalls
  /\ \E o \in OptionInputs, s \in StatusArgs :
       LET out == Option_with_status(o, s, calls) IN
         /\ self' = o
         /\ status' = s
         /\ result' = out.ret
         /\ calls' = out.calls
  /\ method' = "Option::with_status"
  /\ UNCHANGED codeVars

AdapterNext ==
  \/ ResultStatus
  \/ ResultWithStatus
  \/ OptionStatus
  \/ OptionWithStatus

AdapterSpec == AdapterInit /\ [][AdapterNext]_vars

\* ---- properties ----

\* C1: converting any u16 n with From<u16> and converting the result back
\* with From<StatusCode> for u16 returns exactly n, registered or not.
RoundTrip == (pc = "into" /\ via = "from") => ret = num

RoundTripWitness == pc = "into" /\ via = "from" /\ num = 60000 /\ ret = 60000

\* C2: for every glossary entry (k, C): StatusCode::from(k) is the constant
\* C, u16::from(C) is k, and C is the only glossary name whose constant has
\* that value or that number.
NamedRoundTrip ==
  /\ (pc = "from" /\ name # NoName) => code = Constant(name)
  /\ (pc = "into" /\ via = "named") => ret = num
  /\ (pc \in {"from", "named"} /\ name # NoName) =>
       \A g \in Glossary :
         /\ (Constant(g[2]) = code) <=> (g[2] = name)
         /\ (u16_from(Constant(g[2])) = num) <=> (g[2] = name)

NamedRoundTripWitness ==
  /\ pc = "into"
  /\ via = "named"
  /\ name = "NetworkAuthenticationRequired"
  /\ ret = 511

RangeOps ==
  {"is_informational", "is_success", "is_redirection", "is_client_error",
   "is_server_error"}

\* The range predicate whose hundred-range contains n, if any.
RangeOf(n) ==
  CASE n \div 100 = 1 -> "is_informational"
    [] n \div 100 = 2 -> "is_success"
    [] n \div 100 = 3 -> "is_redirection"
    [] n \div 100 = 4 -> "is_client_error"
    [] n \div 100 = 5 -> "is_server_error"
    [] OTHER -> "none"

\* C3: a range predicate is true on StatusCode(n) exactly when it is the one
\* whose hundred-range contains n: so at most one is true, exactly one for
\* 100 <= n < 600, and none for n < 100 or n >= 600.
RangePartition ==
  (pc \in RangeOps /\ via = "new") => (ret <=> pc = RangeOf(num))

RangePartitionWitness ==
  /\ via = "new"
  /\ \/ pc = "is_redirection" /\ num = 399 /\ ret = TRUE
     \/ pc = "is_server_error" /\ num = 600 /\ ret = FALSE

\* C4: is_unknown is true on StatusCode(n) iff n is not a number of the
\* glossary's registered set.
UnknownIffUnregistered ==
  (pc = "is_unknown" /\ via = "new") => (ret <=> num \notin GlossaryNumbers)

UnknownIffUnregisteredWitness ==
  /\ pc = "is_unknown"
  /\ via = "new"
  /\ \/ num = 417 /\ ret = FALSE
     \/ num = 604 /\ ret = TRUE

\* C5: canonical_reason of StatusCode(n) is a non-empty string, and it is
\* "Unknown Status Code" iff n is not a number of the registered set.
ReasonUnknownIffUnregistered ==
  (pc = "canonical_reason" /\ via = "new") =>
    /\ ret # ""
    /\ (ret = "Unknown Status Code") <=> (num \notin GlossaryNumbers)

ReasonUnknownIffUnregisteredWitness ==
  /\ pc = "canonical_reason"
  /\ via = "new"
  /\ num = 299
  /\ ret = "Unknown Status Code"

\* The reason phrases the RFCs and the IANA registry assign to the registered
\* numbers (RFC 7231, 7232, 7233, 7235, 7238, 7540, 7725, 8297, 8470, 2324,
\* 2295, 2774, 3229, 4918, 5842, 6585).
RFCReason(n) ==
  CASE n = 100 -> "Continue"
    [] n = 101 -> "Switching Protocols"
    [] n = 103 -> "Early Hints"
    [] n = 200 -> "OK"
    [] n = 201 -> "Created"
    [] n = 202 -> "Accepted"
    [] n = 203 -> "Non-Authoritative Information"
    [] n = 204 -> "No Content"
    [] n = 205 -> "Reset Content"
    [] n = 206 -> "Partial Content"
    [] n = 207 -> "Multi-Status"
    [] n = 226 -> "IM Used"
    [] n = 300 -> "Multiple Choices"
    [] n = 301 -> "Moved Permanently"
    [] n = 302 -> "Found"
    [] n = 303 -> "See Other"
    [] n = 304 -> "Not Modified"
    [] n = 307 -> "Temporary Redirect"
    [] n = 308 -> "Permanent Redirect"
    [] n = 400 -> "Bad Request"
    [] n = 401 -> "Unauthorized"
    [] n = 402 -> "Payment Required"
    [] n = 403 -> "Forbidden"
    [] n = 404 -> "Not Found"
    [] n = 405 -> "Method Not Allowed"
    [] n = 406 -> "Not Acceptable"
    [] n = 407 -> "Proxy Authentication Required"
    [] n = 408 -> "Request Timeout"
    [] n = 409 -> "Conflict"
    [] n = 410 -> "Gone"
    [] n = 411 -> "Length Required"
    [] n = 412 -> "Precondition Failed"
    [] n = 413 -> "Payload Too Large"
    [] n = 414 -> "URI Too Long"
    [] n = 415 -> "Unsupported Media Type"
    [] n = 416 -> "Range Not Satisfiable"
    [] n = 417 -> "Expectation Failed"
    [] n = 418 -> "I'm a teapot"
    [] n = 421 -> "Misdirected Request"
    [] n = 422 -> "Unprocessable Entity"
    [] n = 423 -> "Locked"
    [] n = 424 -> "Failed Dependency"
    [] n = 425 -> "Too Early"
    [] n = 426 -> "Upgrade Required"
    [] n = 428 -> "Precondition Required"
    [] n = 429 -> "Too Many Requests"
    [] n = 431 -> "Request Header Fields Too Large"
    [] n = 451 -> "Unavailable For Legal Reasons"
    [] n = 500 -> "Internal Server Error"
    [] n = 501 -> "Not Implemented"
    [] n = 502 -> "Bad Gateway"
    [] n = 503 -> "Service Unavailable"
    [] n = 504 -> "Gateway Timeout"
    [] n = 505 -> "HTTP Version Not Supported"
    [] n = 506 -> "Variant Also Negotiates"
    [] n = 507 -> "Insufficient Storage"
    [] n = 508 -> "Loop Detected"
    [] n = 510 -> "Not Extended"
    [] n = 511 -> "Network Authentication Required"
    [] OTHER -> "Unknown Status Code"

\* C6: for every registered code, canonical_reason returns the reason phrase
\* the RFCs assign to that code.
ReasonIsRFCPhrase ==
  (pc = "canonical_reason" /\ num \in GlossaryNumbers) => ret = RFCReason(num)

EqualityIffSameNumber ==
  (pc \in {"eq", "eq_u16", "u16_eq"} /\ via = "new") => (ret <=> num = other)

EqualityIffSameNumberWitness ==
  /\ via = "new"
  /\ \/ pc = "u16_eq" /\ num = U16Max /\ other = 0 /\ ret = FALSE
     \/ pc = "eq_u16" /\ num = 404 /\ other = 404 /\ ret = TRUE

\* C9: on Ok(v) and Some(v), status and with_status return Ok(v) with the
\* same v, whatever the status argument: a success never becomes a failure.
SuccessPassesThrough ==
  (method # "none" /\ self.tag \in {"Ok", "Some"}) =>
    (result.tag = "Ok" /\ result.v = self.v)

SuccessPassesThroughWitness ==
  /\ method = "Option::with_status"
  /\ self.tag = "Some"
  /\ self.v = 1
  /\ status = 600
  /\ result.tag = "Ok"
  /\ result.v = 1

\* C10: a with_status call on Ok(v) or Some(v) never invokes its closure:
\* the closure's call count is the same after the call as before it.
WithStatusLazyOnSuccess ==
  [][(method' \in {"Result::with_status", "Option::with_status"}
        /\ self'.tag \in {"Ok", "Some"}) => calls' = calls]_vars

WithStatusLazyOnSuccessWitness ==
  /\ method = "Result::with_status"
  /\ self.tag = "Ok"
  /\ result.tag = "Ok"
  /\ calls = 1

NoneBecomesNoneError ==
  (method \in {"Option::status", "Option::with_status"} /\ self.tag = "None") =>
    /\ result.tag = "Err"
    /\ result.v.status = StatusCode(status)
    /\ result.v.cause = "NoneError"

NoneBecomesNoneErrorWitness ==
  /\ method = "Option::with_status"
  /\ self.tag = "None"
  /\ status = U16Max
  /\ result.tag = "Err"
  /\ result.v.status = StatusCode(U16Max)
  /\ result.v.cause = "NoneError"

SameOutcome(a, b) ==
  /\ a.tag = b.tag
  /\ (a.tag = "Ok") => (a.v = b.v)
  /\ (a.tag = "Err") => (a.v.status = b.v.status /\ a.v.cause = b.v.cause)

\* C14: x.with_status(|| s) returns what x.status(s) returns, for every
\* receiver x (Ok(v), Err(e), Some(v), None) and every status s.
WithStatusSameAsStatus ==
  /\ (method = "Result::with_status") =>
       SameOutcome(result, Result_status(self, status))
  /\ (method = "Option::with_status") =>
       SameOutcome(result, Option_status(self, status))

WithStatusSameAsStatusWitness ==
  /\ method = "Option::with_status"
  /\ self.tag = "None"
  /\ status = 404
  /\ result.tag = "Err"
  /\ result.v.status = NotFound

\* C15: the three hand-written tables name the same codes: n has an arm of
\* its own in From<u16> iff is_unknown is false on StatusCode(n) iff
\* canonical_reason of StatusCode(n) is not "Unknown Status Code".
TablesAgree ==
  /\ (pc = "is_unknown" /\ via = "new") => (ret <=> ~from_has_arm(num))
  /\ (pc = "canonical_reason" /\ via = "new") =>
       ((ret # "Unknown Status Code") <=> from_has_arm(num))

TablesAgreeWitness ==
  /\ pc = "canonical_reason"
  /\ via = "new"
  /\ num = 103
  /\ from_has_arm(num)
  /\ ret = "Early Hints"

\* C16: a with_status call on Err(e) or None runs its closure exactly once:
\* the call count grows by one over the call, and the Error returned carries
\* the conversion of the number that call returned.
ClosureCalledOnceOnFailure ==
  [][(method' \in {"Result::with_status", "Option::with_status"}
        /\ self'.tag \in {"Err", "None"}) =>
       /\ calls' = calls + 1
       /\ result'.tag = "Err"
       /\ result'.v.status = StatusCode_from(status')]_vars

ClosureCalledOnceOnFailureWitness ==
  /\ method = "Option::with_status"
  /\ self.tag = "None"
  /\ calls = MaxCalls
  /\ result.tag = "Err"
  /\ result.v.status = StatusCode_from(status)

\* The range predicate of that name, applied to a code.
RangeHolds(p, c) ==
  CASE p = "is_informational" -> is_informational(c)
    [] p = "is_success" -> is_success(c)
    [] p = "is_redirection" -> is_redirection(c)
    [] p = "is_client_error" -> is_client_error(c)
    [] p = "is_server_error" -> is_server_error(c)

\* How many of the five range predicates are true on a code.
RangeCount(c) == Cardinality({ p \in RangeOps : RangeHolds(p, c) })

\* C17: every registered code lies in [100,600): when is_unknown is false on
\* StatusCode(n), exactly one range predicate is true on it; a code on which
\* all five are false is unknown and has the reason "Unknown Status Code".
RegisteredAreClassified ==
  /\ (pc = "is_unknown" /\ via = "new" /\ ret = FALSE) =>
       (RangeCount(code) = 1 /\ num >= 100 /\ num < 600)
  /\ (pc = "is_unknown" /\ via = "new" /\ RangeCount(code) = 0) => ret = TRUE
  /\ (pc = "canonical_reason" /\ via = "new" /\ RangeCount(code) = 0) =>
       ret = "Unknown Status Code"

RegisteredAreClassifiedWitness ==
  /\ via = "new"
  /\ \/ pc = "is_unknown" /\ num = 511 /\ ret = FALSE /\ RangeCount(code) = 1
     \/ pc = "canonical_reason" /\ num = 99 /\ RangeCount(code) = 0

\* The converse of C17 does not hold: 299 is unknown yet classified.
UnknownYetClassified ==
  /\ pc = "is_unknown"
  /\ via = "new"
  /\ num = 299
  /\ ret = TRUE
  /\ RangeCount(code) = 1

=============================================================================
